---- MODULE Spec2Model ----
(***************************************************************************)
(* A model of the chatguru crate: the untagged WebhookPayload resolution   *)
(* (types/webhook.rs, types/payload.rs), the media-field normalisation of  *)
(* ChatGuruPayload (types/payload.rs) and the outbound calls of            *)
(* ChatGuruClient (client.rs).                                             *)
(*                                                                         *)
(* Strings that the code only stores and compares are TLA+ strings.        *)
(* Strings that the code scans (the phone number, the endpoint, the        *)
(* response body) are sequences of tokens, so that filtering, ends_with    *)
(* and contains are computed and not assumed.                              *)
(***************************************************************************)
EXTENDS Integers, Sequences, FiniteSets, TLC

VARIABLES
    raw,            \* the webhook body given to serde_json::from_str
    resolved,       \* the Result<WebhookPayload, _> of the resolution
    payload,        \* a ChatGuruPayload that normalize_media_fields acts on
    original,       \* the payload as constructed (history)
    once,           \* the payload after the first normalisation (history)
    passes,         \* how many times normalize_media_fields ran
    client,         \* the ChatGuruClient's fields
    message_states, \* the client's _message_states map
    calls           \* the outbound calls in flight, by caller

vars == <<raw, resolved, payload, original, once, passes, client, message_states, calls>>

resolverVars == <<raw, resolved>>
mediaVars == <<payload, original, once, passes>>
clientVars == <<client, message_states, calls>>

(***************************************************************************)
(* Bounds of the model.                                                    *)
(***************************************************************************)
MaxArrayLen == 2
MaxSegments == 2
MaxPhoneLen == 2

RECURSIVE SeqsUpTo(_, _)
SeqsUpTo(S, n) ==
    IF n = 0 THEN {<<>>}
    ELSE LET shorter == SeqsUpTo(S, n - 1)
         IN  shorter \cup {Append(s, x) : s \in {t \in shorter : Len(t) = n - 1}, x \in S}

(***************************************************************************)
(* Option<T> and JSON values.                                              *)
(***************************************************************************)
None == [some |-> FALSE]
Some(v) == [some |-> TRUE, v |-> v]

JNull == [kind |-> "null"]
JNum == [kind |-> "number"]
JBool == [kind |-> "bool"]
JStr(s) == [kind |-> "string", str |-> s]
JArr(items) == [kind |-> "array", items |-> items]
JObj(fields) == [kind |-> "object", fields |-> fields]

(***************************************************************************)
(* The serde field lists of the payload structs, in declaration order.     *)
(***************************************************************************)
Field(name, ty, aliases, hasDefault) ==
    [name |-> name, ty |-> ty, aliases |-> aliases, hasDefault |-> hasDefault]

ChatGuruFields == <<
    Field("campanha_id", "String", {}, TRUE),
    Field("campanha_nome", "String", {}, TRUE),
    Field("origem", "String", {}, TRUE),
    Field("email", "String", {}, TRUE),
    Field("nome", "String", {}, TRUE),
    Field("tags", "VecString", {}, TRUE),
    Field("texto_mensagem", "String", {"mensagem", "message", "text"}, TRUE),
    Field("media_url", "OptString", {}, TRUE),
    Field("media_type", "OptString", {}, TRUE),
    Field("tipo_mensagem", "OptString", {}, TRUE),
    Field("url_arquivo", "OptString", {"url_midia"}, TRUE),
    Field("campos_personalizados", "ValueMap", {}, TRUE),
    Field("bot_context", "OptBotContext", {}, TRUE),
    Field("responsavel_nome", "OptString", {}, TRUE),
    Field("responsavel_email", "OptString", {}, TRUE),
    Field("link_chat", "String", {}, TRUE),
    Field("celular", "String", {}, TRUE),
    Field("phone_id", "OptString", {}, TRUE),
    Field("chat_id", "OptString", {}, TRUE),
    Field("chat_created", "OptString", {}, TRUE) >>

BotContextFields == << Field("ChatGuru", "OptBool", {}, FALSE) >>

EventTypeFields == <<
    Field("id", "String", {}, FALSE),
    Field("event_type", "String", {}, FALSE),
    Field("timestamp", "String", {}, FALSE),
    Field("data", "EventData", {}, FALSE) >>

EventDataFields == <<
    Field("lead_name", "OptString", {}, FALSE),
    Field("phone", "OptString", {}, FALSE),
    Field("email", "OptString", {}, FALSE),
    Field("project_name", "OptString", {}, FALSE),
    Field("task_title", "OptString", {}, FALSE),
    Field("annotation", "OptString", {}, FALSE),
    Field("amount", "OptF64", {}, FALSE),
    Field("status", "OptString", {}, FALSE),
    Field("custom_data", "ValueMap", {}, TRUE) >>

GenericFields == <<
    Field("nome", "OptString", {}, FALSE),
    Field("celular", "OptString", {}, FALSE),
    Field("email", "OptString", {}, FALSE),
    Field("mensagem", "OptString", {}, FALSE) >>

Range(s) == {s[i] : i \in DOMAIN s}
KeysFor(f) == {f.name} \cup f.aliases
IsOptionType(ty) == ty \in {"OptString", "OptBotContext", "OptF64", "OptBool"}

(***************************************************************************)
(* Whether serde decodes JSON value v into a field of type ty, and whether *)
(* it decodes v into a struct with the given fields.  A struct that has a  *)
(* #[serde(flatten)] member is read with deserialize_map and so only from  *)
(* an object; any other struct is also read from an array, positionally.   *)
(***************************************************************************)
RECURSIVE TypeAccepts(_, _), StructAccepts(_, _, _)

TypeAccepts(ty, v) ==
    CASE ty = "String" -> v.kind = "string"
      [] ty = "OptString" -> v.kind \in {"null", "string"}
      [] ty = "OptF64" -> v.kind \in {"null", "number"}
      [] ty = "OptBool" -> v.kind \in {"null", "bool"}
      [] ty = "VecString" ->
            v.kind = "array" /\ \A i \in DOMAIN v.items : v.items[i].kind = "string"
      [] ty = "ValueMap" -> v.kind = "object"
      [] ty = "OptBotContext" ->
            v.kind = "null" \/ StructAccepts(BotContextFields, FALSE, v)
      [] ty = "EventData" -> StructAccepts(EventDataFields, TRUE, v)

StructAccepts(fields, flatten, v) ==
    CASE v.kind = "object" ->
            \A i \in DOMAIN fields :
                LET f == fields[i]
                    ks == KeysFor(f) \cap DOMAIN v.fields
                IN  IF ks = {}
                    THEN f.hasDefault \/ IsOptionType(f.ty)
                    ELSE /\ Cardinality(ks) = 1
                         /\ TypeAccepts(f.ty, v.fields[CHOOSE k \in ks : TRUE])
      [] v.kind = "array" /\ ~flatten ->
            /\ Len(v.items) <= Len(fields)
            /\ \A i \in DOMAIN fields :
                IF i <= Len(v.items)
                THEN TypeAccepts(fields[i].ty, v.items[i])
                ELSE fields[i].hasDefault
      [] OTHER -> FALSE

(***************************************************************************)
(* The value serde builds, for a v that the type accepts.                  *)
(***************************************************************************)
DefaultOf(ty) ==
    CASE ty = "String" -> ""
      [] ty \in {"VecString", "ValueMap"} -> <<>>
      [] OTHER -> None

FieldNames(fields) == {fields[i].name : i \in DOMAIN fields}
KnownKeys(fields) == UNION {KeysFor(fields[i]) : i \in DOMAIN fields}
FieldNamed(fields, n) == fields[CHOOSE i \in DOMAIN fields : fields[i].name = n]

RECURSIVE DecodeType(_, _), DecodeStruct(_, _, _)

DecodeType(ty, v) ==
    CASE ty = "String" -> v.str
      [] ty = "OptString" -> IF v.kind = "null" THEN None ELSE Some(v.str)
      [] ty = "OptF64" -> IF v.kind = "null" THEN None ELSE Some(v)
      [] ty = "OptBool" -> IF v.kind = "null" THEN None ELSE Some(v)
      [] ty = "VecString" -> [i \in DOMAIN v.items |-> v.items[i].str]
      [] ty = "ValueMap" -> v.fields
      [] ty = "OptBotContext" ->
            IF v.kind = "null" THEN None
            ELSE Some(DecodeStruct(BotContextFields, FALSE, v))
      [] ty = "EventData" -> DecodeStruct(EventDataFields, TRUE, v)

DecodeStruct(fields, flatten, v) ==
    LET Value(n) ==
            LET f == FieldNamed(fields, n)
                i == CHOOSE j \in DOMAIN fields : fields[j].name = n
            IN  IF v.kind = "object"
                THEN LET ks == KeysFor(f) \cap DOMAIN v.fields
                     IN  IF ks = {} THEN DefaultOf(f.ty)
                         ELSE DecodeType(f.ty, v.fields[CHOOSE k \in ks : TRUE])
                ELSE IF i <= Len(v.items) THEN DecodeType(f.ty, v.items[i])
                     ELSE DefaultOf(f.ty)
        extra == [k \in DOMAIN v.fields \ KnownKeys(fields) |-> v.fields[k]]
    IN  [n \in FieldNames(fields) \cup (IF flatten THEN {"extra"} ELSE {}) |->
            IF n = "extra" /\ flatten THEN extra ELSE Value(n)]

(***************************************************************************)
(* #[serde(untagged)] enum WebhookPayload: the variants are tried in       *)
(* declaration order and the first that decodes is the result; when none   *)
(* decodes, from_str returns an error.                                     *)
(***************************************************************************)
ChatGuruDecodes(v) == StructAccepts(ChatGuruFields, FALSE, v)
EventTypeDecodes(v) == StructAccepts(EventTypeFields, FALSE, v)
GenericDecodes(v) == StructAccepts(GenericFields, TRUE, v)

(* Resolve with the Legacy-event variant tried before the Primary one. *)
ResolveLegacyFirst(v) ==
    IF EventTypeDecodes(v)
    THEN [ok |-> TRUE, variant |-> "EventType", p |-> DecodeStruct(EventTypeFields, FALSE, v)]
    ELSE IF ChatGuruDecodes(v)
    THEN [ok |-> TRUE, variant |-> "ChatGuru", p |-> DecodeStruct(ChatGuruFields, FALSE, v)]
    ELSE IF GenericDecodes(v)
    THEN [ok |-> TRUE, variant |-> "Generic", p |-> DecodeStruct(GenericFields, TRUE, v)]
    ELSE [ok |-> FALSE, variant |-> "Err"]

Resolve(v) ==
    IF ChatGuruDecodes(v)
    THEN [ok |-> TRUE, variant |-> "ChatGuru", p |-> DecodeStruct(ChatGuruFields, FALSE, v)]
    ELSE IF EventTypeDecodes(v)
    THEN [ok |-> TRUE, variant |-> "EventType", p |-> DecodeStruct(EventTypeFields, FALSE, v)]
    ELSE IF GenericDecodes(v)
    THEN [ok |-> TRUE, variant |-> "Generic", p |-> DecodeStruct(GenericFields, TRUE, v)]
    ELSE [ok |-> FALSE, variant |-> "Err"]

(***************************************************************************)
(* The accessors of WebhookPayload (w is a resolved payload).              *)
(***************************************************************************)
UnwrapOr(o, d) == IF o.some THEN o.v ELSE d
OrElse(o, alt) == IF o.some THEN o ELSE alt

get_contact_name(w) ==
    CASE w.variant = "ChatGuru" -> w.p.nome
      [] w.variant = "EventType" -> UnwrapOr(w.p.data.lead_name, "Contato")
      [] w.variant = "Generic" -> UnwrapOr(w.p.nome, "Contato")

get_phone_number(w) ==
    CASE w.variant = "ChatGuru" -> IF w.p.celular # "" THEN Some(w.p.celular) ELSE None
      [] w.variant = "EventType" -> w.p.data.phone
      [] w.variant = "Generic" -> w.p.celular

get_message_text(w) ==
    CASE w.variant = "ChatGuru" ->
            IF w.p.texto_mensagem # "" THEN Some(w.p.texto_mensagem) ELSE None
      [] w.variant = "EventType" -> w.p.data.annotation
      [] w.variant = "Generic" -> w.p.mensagem

get_chat_id(w) ==
    CASE w.variant = "ChatGuru" -> w.p.chat_id
      [] w.variant = "EventType" -> Some(w.p.id)
      [] w.variant = "Generic" -> None

has_media(w) ==
    CASE w.variant = "ChatGuru" -> w.p.media_url.some \/ w.p.url_arquivo.some
      [] OTHER -> FALSE

(* The accessor's match without "ptt" in the audio arm. *)
DerivedMediaTypeAudioOnly(tipo) ==
    CASE tipo = "image" -> "image/jpeg"
      [] tipo = "audio" -> "audio/ogg"
      [] tipo = "video" -> "video/mp4"
      [] tipo = "document" -> "application/pdf"
      [] OTHER -> "application/" \o tipo

DerivedMediaType(tipo) ==
    CASE tipo = "image" -> "image/jpeg"
      [] tipo \in {"ptt", "audio"} -> "audio/ogg"
      [] tipo = "video" -> "video/mp4"
      [] tipo = "document" -> "application/pdf"
      [] OTHER -> "application/" \o tipo

get_media_url(w) ==
    CASE w.variant = "ChatGuru" -> OrElse(w.p.media_url, w.p.url_arquivo)
      [] OTHER -> None

get_media_type(w) ==
    CASE w.variant = "ChatGuru" ->
            OrElse(w.p.media_type,
                   IF w.p.tipo_mensagem.some THEN Some(DerivedMediaType(w.p.tipo_mensagem.v)) ELSE None)
      [] OTHER -> None

(***************************************************************************)
(* The webhook bodies the resolution is run on: objects over the keys the  *)
(* three shapes use (each key absent or carrying one of a few values, of   *)
(* the expected type or not), the scalars, and short arrays.               *)
(***************************************************************************)
Absent == [kind |-> "absent"]

DataObjects ==
    { JObj(<<>>),
      JObj([lead_name |-> JStr("Bob")]),
      JObj([lead_name |-> JStr("Bob"), phone |-> JStr("5522")]),
      JObj([lead_name |-> JNum]),
      JObj([lead_name |-> JStr("Bob"), phone |-> JStr("5522"), source |-> JNum]) }

KeyValues ==
    [ nome : {Absent, JStr("Ana"), JNum, JNull},
      celular : {Absent, JStr("5511")},
      email : {Absent, JStr("a@b.c"), JNull},
      chat_id : {Absent, JStr("c1")},
      mensagem : {Absent, JStr("oi")},
      message : {Absent, JStr("hi")},
      id : {Absent, JStr("e1"), JNum},
      event_type : {Absent, JStr("lead")},
      timestamp : {Absent, JStr("t0")},
      data : {Absent, JStr("x")} \cup DataObjects,
      source : {Absent, JNum} ]

ObjectOf(kv) == JObj([k \in {j \in DOMAIN kv : kv[j] # Absent} |-> kv[k]])

ArrayItems == {JStr("a"), JNum}

RawInputs ==
    {ObjectOf(kv) : kv \in KeyValues}
        \cup {JNull, JNum, JBool, JStr("text")}
        \cup {JArr(items) : items \in SeqsUpTo(ArrayItems, MaxArrayLen)}

Pending == [ok |-> FALSE, variant |-> "Pending"]

(***************************************************************************)
(* Inert values of the components a specification does not run.            *)
(***************************************************************************)
NoPayload == [media_url |-> None, media_type |-> None,
              tipo_mensagem |-> None, url_arquivo |-> None]
NoClient == [api_token |-> "", api_endpoint |-> <<>>, account_id |-> ""]

ResolverIdle == raw = JNull /\ resolved = Pending
MediaIdle == payload = NoPayload /\ original = NoPayload /\ once = NoPayload /\ passes = 0
ClientIdle == client = NoClient /\ message_states = <<>> /\ calls = <<>>

(***************************************************************************)
(* Resolution of one webhook body: serde_json::from_str::<WebhookPayload>. *)
(***************************************************************************)
InitResolver ==
    /\ raw \in RawInputs
    /\ resolved = Pending
    /\ MediaIdle
    /\ ClientIdle

FromStr ==
    /\ resolved = Pending
    /\ resolved' = Resolve(raw)
    /\ UNCHANGED <<raw, mediaVars, clientVars>>

NextResolver == FromStr

SpecResolver == InitResolver /\ [][NextResolver]_vars

(***************************************************************************)
(* ChatGuruPayload::normalize_media_fields.                                *)
(***************************************************************************)
MaxPasses == 2

(* The match of normalize_media_fields with the "ptt" arm left out. *)
NormalizedMediaTypeNoPtt(tipo) ==
    CASE tipo = "image" -> "image/jpeg"
      [] tipo = "audio" -> "audio/ogg"
      [] tipo = "video" -> "video/mp4"
      [] tipo = "document" -> "application/pdf"
      [] OTHER -> "application/" \o tipo

NormalizedMediaType(tipo) ==
    CASE tipo = "image" -> "image/jpeg"
      [] tipo = "ptt" -> "audio/ogg"
      [] tipo = "audio" -> "audio/ogg"
      [] tipo = "video" -> "video/mp4"
      [] tipo = "document" -> "application/pdf"
      [] OTHER -> "application/" \o tipo

(* normalize_media_fields with the rules as alternatives: the type is *)
(* derived only when the URL rule did not apply.                      *)
normalize_first_rule_only(p) ==
    IF p.media_url.some /\ p.media_type.some THEN p
    ELSE IF p.url_arquivo.some /\ ~p.media_url.some
    THEN [p EXCEPT !.media_url = p.url_arquivo]
    ELSE IF p.tipo_mensagem.some /\ ~p.media_type.some
    THEN [p EXCEPT !.media_type = Some(NormalizedMediaType(p.tipo_mensagem.v))]
    ELSE p

(* normalize_media_fields without the media_url.is_none() test. *)
normalize_overwriting_url(p) ==
    IF p.media_url.some /\ p.media_type.some THEN p
    ELSE LET withUrl == IF p.url_arquivo.some
                        THEN [p EXCEPT !.media_url = p.url_arquivo]
                        ELSE p
         IN  IF withUrl.tipo_mensagem.some /\ ~withUrl.media_type.some
             THEN [withUrl EXCEPT
                    !.media_type = Some(NormalizedMediaType(withUrl.tipo_mensagem.v))]
             ELSE withUrl

normalize_media_fields(p) ==
    IF p.media_url.some /\ p.media_type.some THEN p
    ELSE LET withUrl == IF p.url_arquivo.some /\ ~p.media_url.some
                        THEN [p EXCEPT !.media_url = p.url_arquivo]
                        ELSE p
         IN  IF withUrl.tipo_mensagem.some
             THEN IF ~withUrl.media_type.some
                  THEN [withUrl EXCEPT
                         !.media_type = Some(NormalizedMediaType(withUrl.tipo_mensagem.v))]
                  ELSE withUrl
             ELSE withUrl

(***************************************************************************)
(* The payloads normalisation is run on: ChatGuruPayloads decoded from     *)
(* bodies whose media keys are each absent, null or set.                   *)
(***************************************************************************)
MediaKeyValues ==
    [ media_url : {Absent, JNull, JStr("https://x/m.jpg")},
      media_type : {Absent, JStr("audio")},
      tipo_mensagem : {Absent, JStr("image"), JStr("ptt"), JStr("audio"), JStr("video"),
                       JStr("document"), JStr("widget"), JStr("PTT"), JStr("")},
      url_arquivo : {Absent, JStr("https://x/a.ogg")},
      url_midia : {Absent, JStr("https://x/b.mp4")},
      nome : {Absent, JStr("Ana")},
      celular : {Absent, JStr("5511")} ]

MediaPayloads ==
    {DecodeStruct(ChatGuruFields, FALSE, ObjectOf(kv)) :
        kv \in {k \in MediaKeyValues : ChatGuruDecodes(ObjectOf(k))}}

InitMedia ==
    /\ payload \in MediaPayloads
    /\ original = payload
    /\ once = payload
    /\ passes = 0
    /\ ResolverIdle
    /\ ClientIdle

Normalize ==
    /\ passes < MaxPasses
    /\ payload' = normalize_media_fields(payload)
    /\ passes' = passes + 1
    /\ once' = IF passes = 0 THEN payload' ELSE once
    /\ UNCHANGED <<original, resolverVars, clientVars>>

NextMedia == Normalize

SpecMedia == InitMedia /\ [][NextMedia]_vars

(***************************************************************************)
(* ChatGuruClient.  A scanned string is a sequence of tokens: a character  *)
(* of a phone number; "/" or a path word of an endpoint (the scheme and    *)
(* host are one token, which neither ends in "/" nor holds "/api/v1");     *)
(* a fragment of a response body.                                          *)
(***************************************************************************)
EndsWith(s, suffix) ==
    /\ Len(suffix) <= Len(s)
    /\ SubSeq(s, Len(s) - Len(suffix) + 1, Len(s)) = suffix

Contains(s, pattern) ==
    \E i \in 1..(Len(s) - Len(pattern) + 1) : SubSeq(s, i, i + Len(pattern) - 1) = pattern

Slash == <<"/">>
ApiV1 == <<"/", "api", "/", "v1">>
DefaultPhoneId == "62558780e2923cc4705beee1"

AsciiDigits == {"0", "1", "2", "3", "4", "5", "6", "7", "8", "9"}
(* Numeric characters (Unicode Nd, Nl, No) other than 0-9: superscript  *)
(* two, Arabic-Indic digit three.                                       *)
OtherNumerics == {"U+00B2", "U+0663"}

is_numeric(c) == c \in AsciiDigits \cup OtherNumerics

clean_phone(phone_number) == SelectSeq(phone_number, is_numeric)

base_url(api_endpoint) ==
    IF EndsWith(api_endpoint, ApiV1) THEN api_endpoint
    ELSE IF EndsWith(api_endpoint, Slash) THEN api_endpoint \o <<"api", "/", "v1">>
    ELSE api_endpoint \o ApiV1

(* urlencoding::encode: everything but letters, digits, - _ . ~ is escaped *)
encode(text) ==
    [i \in DOMAIN text |->
        CASE text[i] = " " -> "%20"
          [] text[i] = ":" -> "%3A"
          [] OTHER -> text[i]]

(* The request URL, by its parts, in the order format! writes them. *)
(* annotation_url with the cleaned phone number kept in a place the calls *)
(* share: a call reads the number of a call already in flight.           *)
annotation_url_shared_phone(c, phone_number, annotation_text) ==
    LET inflight == {j \in DOMAIN calls : calls[j].pc # "idle"}
        shared == IF inflight = {} THEN phone_number
                  ELSE calls[CHOOSE j \in inflight : TRUE].phone_number
    IN  [ base_url |-> base_url(c.api_endpoint),
          key |-> c.api_token,
          account_id |-> c.account_id,
          phone_id |-> DefaultPhoneId,
          action |-> "note_add",
          text_param |-> "note_text",
          text |-> encode(annotation_text),
          chat_number |-> clean_phone(shared) ]

annotation_url(c, phone_number, annotation_text) ==
    [ base_url |-> base_url(c.api_endpoint),
      key |-> c.api_token,
      account_id |-> c.account_id,
      phone_id |-> DefaultPhoneId,
      action |-> "note_add",
      text_param |-> "note_text",
      text |-> encode(annotation_text),
      chat_number |-> clean_phone(phone_number) ]

message_url(c, phone_number, phone_id, message) ==
    [ base_url |-> base_url(c.api_endpoint),
      key |-> c.api_token,
      account_id |-> c.account_id,
      phone_id |-> UnwrapOr(phone_id, DefaultPhoneId),
      action |-> "message_send",
      text_param |-> "text",
      text |-> encode(message),
      chat_number |-> clean_phone(phone_number) ]

is_success(status) == status >= 200 /\ status < 300

ChatNotFound(op, response_text) ==
    IF op = "add_annotation"
    THEN Contains(response_text, <<"Chat n", "ão encontrado">>)
            \/ Contains(response_text, <<"Chat n">>)
    ELSE Contains(response_text, <<"Chat n", "ão existe">>)
            \/ Contains(response_text, <<"Chat n">>)

(* The log records a call writes once the response text is known. *)
ResponseLogs(op, status, response_text) ==
    IF is_success(status) \/ status = 201 THEN <<"info", "info">>
    ELSE IF ChatNotFound(op, response_text) THEN <<"warn">>
    ELSE <<"error">>

(* A call that reports a non-success status to its caller. *)
ResponseResultStrict(op, status, response_text) ==
    IF is_success(status) \/ status = 201 THEN "Ok" ELSE "ApiError"

(* What the call returns once the response text is known. *)
ResponseResult(op, status, response_text) ==
    IF is_success(status) \/ status = 201 THEN "Ok" ELSE "Ok"

(***************************************************************************)
(* The inputs of the calls.                                                *)
(***************************************************************************)
Host == <<"https://api.chatguru.app">>
PathWords == {"api", "v1", "x"}

RECURSIVE PathOf(_)
PathOf(words) ==
    IF words = <<>> THEN <<>> ELSE <<"/", Head(words)>> \o PathOf(Tail(words))

Endpoints ==
    {Host \o PathOf(words) \o trailing :
        words \in SeqsUpTo(PathWords, MaxSegments), trailing \in {<<>>, Slash}}

PhoneChars == {"1", "5", "+", "U+00B2"}
PhoneNumbers == SeqsUpTo(PhoneChars, MaxPhoneLen)
Texts == {<<"Tarefa", " ", "criada", ":", " ", "T-1">>}
PhoneIds == {None, Some("phone_2")}
StatusCodes == {200, 201, 400, 404, 500}
Bodies ==
    { <<>>,
      <<"{\"error\":\"", "Chat n", "ão encontrado", "\"}">>,
      <<"Chat n", "ão existe">>,
      <<"{\"error\":\"", "Chat n", "\\u00e3o encontrado", "\"}">>,
      <<"Chat n", "umber is invalid">>,
      <<"Internal Server Error">> }

NoRequest ==
    [ base_url |-> <<>>, key |-> "", account_id |-> "", phone_id |-> "", action |-> "",
      text_param |-> "", text |-> <<>>, chat_number |-> <<>> ]

IdleCall ==
    [ pc |-> "idle", op |-> "", phone_number |-> <<>>, phone_id |-> None, text |-> <<>>,
      request |-> NoRequest,
      responded |-> FALSE, status |-> 0, response_text |-> <<>>,
      transport_failed |-> FALSE, result |-> "none", logs |-> <<>> ]

(***************************************************************************)
(* ChatGuruClient::new, then the steps of one call by caller k.            *)
(***************************************************************************)
InitClient ==
    /\ client \in [api_token : {"token"}, api_endpoint : Endpoints, account_id : {"acct"}]
    /\ message_states = <<>>
    /\ calls = [k \in {1} |-> IdleCall]
    /\ ResolverIdle
    /\ MediaIdle

(* add_annotation up to the send: the URL is built and logged. *)
StartAnnotation(k, phone_number, annotation_text) ==
    /\ calls[k].pc = "idle"
    /\ calls' = [calls EXCEPT ![k] =
            [IdleCall EXCEPT !.pc = "sending", !.op = "add_annotation",
                             !.phone_number = phone_number,
                             !.text = annotation_text,
                             !.request = annotation_url(client, phone_number, annotation_text),
                             !.logs = <<"info">>]]
    /\ UNCHANGED <<client, message_states, resolverVars, mediaVars>>

AddAnnotation(k) ==
    \E phone_number \in PhoneNumbers, annotation_text \in Texts :
        StartAnnotation(k, phone_number, annotation_text)

(* send_confirmation_message up to the send. *)
StartMessage(k, phone_number, phone_id, message) ==
    /\ calls[k].pc = "idle"
    /\ calls' = [calls EXCEPT ![k] =
            [IdleCall EXCEPT !.pc = "sending", !.op = "send_confirmation_message",
                             !.phone_number = phone_number,
                             !.phone_id = phone_id,
                             !.text = message,
                             !.request = message_url(client, phone_number, phone_id, message),
                             !.logs = <<"info">>]]
    /\ UNCHANGED <<client, message_states, resolverVars, mediaVars>>

SendConfirmationMessage(k) ==
    \E phone_number \in PhoneNumbers, phone_id \in PhoneIds, message \in Texts :
        StartMessage(k, phone_number, phone_id, message)

(* .send().await fails (connection refused, DNS, timeout): map_err, `?`. *)
SendFails(k) ==
    /\ calls[k].pc = "sending"
    /\ calls' = [calls EXCEPT ![k].pc = "done", ![k].transport_failed = TRUE,
                              ![k].result = "NetworkError"]
    /\ UNCHANGED <<client, message_states, resolverVars, mediaVars>>

(* .send().await yields a response: its status is read. *)
ResponseWith(k, status) ==
    /\ calls[k].pc = "sending"
    /\ calls' = [calls EXCEPT ![k].pc = "reading", ![k].responded = TRUE,
                              ![k].status = status]
    /\ UNCHANGED <<client, message_states, resolverVars, mediaVars>>

ResponseReceived(k) == \E status \in StatusCodes : ResponseWith(k, status)

Finish(k, response_text, failed) ==
    LET call == calls[k]
    IN  calls' = [calls EXCEPT
            ![k].pc = "done",
            ![k].response_text = response_text,
            ![k].transport_failed = failed,
            ![k].logs = call.logs \o ResponseLogs(call.op, call.status, response_text),
            ![k].result = ResponseResult(call.op, call.status, response_text)]

(* response.text().await yields the body. *)
BodyReadWith(k, body) ==
    /\ calls[k].pc = "reading"
    /\ Finish(k, body, FALSE)
    /\ UNCHANGED <<client, message_states, resolverVars, mediaVars>>

BodyRead(k) == \E body \in Bodies : BodyReadWith(k, body)

(* response.text().await fails (connection lost, timeout while reading): *)
(* unwrap_or_default() turns the error into the empty string.            *)
BodyReadFails(k) ==
    /\ calls[k].pc = "reading"
    /\ Finish(k, <<>>, TRUE)
    /\ UNCHANGED <<client, message_states, resolverVars, mediaVars>>

NextClient ==
    \/ \E k \in DOMAIN calls : AddAnnotation(k)
    \/ \E k \in DOMAIN calls : SendConfirmationMessage(k)
    \/ \E k \in DOMAIN calls : SendFails(k)
    \/ \E k \in DOMAIN calls : ResponseReceived(k)
    \/ \E k \in DOMAIN calls : BodyRead(k)
    \/ \E k \in DOMAIN calls : BodyReadFails(k)

SpecClient == InitClient /\ [][NextClient]_vars

(***************************************************************************)
(* Concurrent calls on one shared (or cloned) client: every caller runs    *)
(* the steps of its own call, interleaved in any order with the others'.   *)
(* A clone shares _message_states (an Arc) and copies the three strings.   *)
(***************************************************************************)
MaxCallers == 2

ConcurrentEndpoints == {Host, Host \o ApiV1 \o Slash}
ConcurrentPhones == {<<"5", "1">>, <<"+", "1">>}
ConcurrentStatuses == {200, 404}
ConcurrentBodies == {<<"Chat n", "ão existe">>, <<"Internal Server Error">>}

InitConcurrent ==
    /\ client \in [api_token : {"token"}, api_endpoint : ConcurrentEndpoints,
                   account_id : {"acct"}]
    /\ message_states = <<>>
    /\ calls = [k \in 1..MaxCallers |-> IdleCall]
    /\ ResolverIdle
    /\ MediaIdle

NextConcurrent ==
    \/ \E k \in DOMAIN calls, phone_number \in ConcurrentPhones, text \in Texts :
            StartAnnotation(k, phone_number, text)
    \/ \E k \in DOMAIN calls, phone_number \in ConcurrentPhones, phone_id \in PhoneIds,
          text \in Texts :
            StartMessage(k, phone_number, phone_id, text)
    \/ \E k \in DOMAIN calls : SendFails(k)
    \/ \E k \in DOMAIN calls, status \in ConcurrentStatuses : ResponseWith(k, status)
    \/ \E k \in DOMAIN calls, body \in ConcurrentBodies : BodyReadWith(k, body)
    \/ \E k \in DOMAIN calls : BodyReadFails(k)

SpecConcurrent == InitConcurrent /\ [][NextConcurrent]_vars

(***************************************************************************)
(* C1: resolving a syntactically valid JSON body never fails: it yields    *)
(* one of the three variants.  Stated for the bodies the claim names, the  *)
(* JSON objects (with known fields of an unexpected type, or only unknown  *)
(* fields); the code refutes it.                                           *)
(***************************************************************************)
C1_ResolutionTotal ==
    (resolved # Pending /\ raw.kind = "object") =>
        resolved.ok /\ resolved.variant \in {"ChatGuru", "EventType", "Generic"}

(***************************************************************************)
(* C2: a body that has the Legacy-event variant's required fields,         *)
(* correctly typed, resolves to EventType; the accessors report the given  *)
(* data.lead_name and data.phone, has_media is false and get_chat_id is    *)
(* the id.  (Stated as the claim; the code refutes it.)                    *)
(***************************************************************************)
LegacyShaped(v) ==
    /\ v.kind = "object"
    /\ {"id", "event_type", "timestamp", "data"} \subseteq DOMAIN v.fields
    /\ v.fields.id.kind = "string"
    /\ v.fields.event_type.kind = "string"
    /\ v.fields.timestamp.kind = "string"
    /\ v.fields.data.kind = "object"
    /\ \A k \in DOMAIN v.fields.data.fields \cap {"lead_name", "phone"} :
            v.fields.data.fields[k].kind = "string"

C2_LegacyPreferred ==
    (resolved # Pending /\ LegacyShaped(raw)) =>
        /\ resolved.ok
        /\ resolved.variant = "EventType"
        /\ "lead_name" \in DOMAIN raw.fields.data.fields =>
                get_contact_name(resolved) = raw.fields.data.fields.lead_name.str
        /\ "phone" \in DOMAIN raw.fields.data.fields =>
                get_phone_number(resolved) = Some(raw.fields.data.fields.phone.str)
        /\ ~has_media(resolved)
        /\ get_chat_id(resolved) = Some(raw.fields.id.str)

(***************************************************************************)
(* C3: the variants are tried in the order ChatGuru, EventType, Generic    *)
(* and the first that decodes is the result: EventType only if the         *)
(* ChatGuru decode failed, Generic only if both others failed.             *)
(***************************************************************************)
C3_FirstDecodeWins ==
    resolved # Pending =>
        /\ ChatGuruDecodes(raw) => resolved.variant = "ChatGuru"
        /\ (~ChatGuruDecodes(raw) /\ EventTypeDecodes(raw)) => resolved.variant = "EventType"
        /\ resolved.variant = "EventType" => ~ChatGuruDecodes(raw)
        /\ resolved.variant = "Generic" => ~ChatGuruDecodes(raw) /\ ~EventTypeDecodes(raw)

C3_Witness ==
    /\ resolved.variant = "EventType"
    /\ raw.kind = "object"
    /\ GenericDecodes(raw)

C5_TransportFailureSurfaced ==
    \A k \in DOMAIN calls :
        (calls[k].pc = "done" /\ calls[k].transport_failed) =>
            calls[k].result = "NetworkError"

(***************************************************************************)
(* C6: for a base endpoint that has no path, ends in /api/v1, ends in a    *)
(* trailing slash or ends in /api/v1/, the request URL holds exactly one   *)
(* /api/v1.  (Stated as the claim; the code refutes it.)                   *)
(***************************************************************************)
CountApiV1(url) ==
    Cardinality({i \in 1..Len(url) : i + 3 <= Len(url) /\ SubSeq(url, i, i + 3) = ApiV1})

C6_ClaimedEndpoint(e) ==
    /\ CountApiV1(e) <= 1
    /\ \/ e = Host
       \/ EndsWith(e, ApiV1)
       \/ EndsWith(e, Slash)
       \/ EndsWith(e, ApiV1 \o Slash)

C6_ExactlyOneApiV1 ==
    \A k \in DOMAIN calls :
        (calls[k].pc # "idle" /\ C6_ClaimedEndpoint(client.api_endpoint)) =>
            CountApiV1(calls[k].request.base_url) = 1

(***************************************************************************)
(* C7: the chat_number transmitted is the phone number with every          *)
(* character other than the digits 0-9 removed, the digits kept in order.  *)
(* (Stated as the claim; the code refutes it.)                             *)
(***************************************************************************)
C7_IsAsciiDigit(c) == c \in AsciiDigits

C7_ChatNumberIsDigits ==
    \A k \in DOMAIN calls :
        calls[k].pc # "idle" =>
            calls[k].request.chat_number = SelectSeq(calls[k].phone_number, C7_IsAsciiDigit)

(***************************************************************************)
(* C8: normalize_media_fields is idempotent: a second (and any further)    *)
(* application leaves the payload exactly as the first left it.            *)
(***************************************************************************)
C8_NormalizeIdempotent ==
    passes >= 2 => payload = once

C8_Witness ==
    /\ passes = 2
    /\ once # original
    /\ once.media_url # original.media_url
    /\ once.media_type # original.media_type

(***************************************************************************)
(* C9: on a payload with media_type unset and tipo_mensagem set,           *)
(* normalisation sets media_type to the MIME string of the tag (image ->   *)
(* image/jpeg, ptt or audio -> audio/ogg, video -> video/mp4, document ->  *)
(* application/pdf, any other t -> application/t), whether or not          *)
(* media_url was set; and when media_url is unset and url_arquivo is set,  *)
(* media_url becomes url_arquivo.                                          *)
(***************************************************************************)
C9_Mime(t) ==
    IF t = "image" THEN "image/jpeg"
    ELSE IF t \in {"ptt", "audio"} THEN "audio/ogg"
    ELSE IF t = "video" THEN "video/mp4"
    ELSE IF t = "document" THEN "application/pdf"
    ELSE "application/" \o t

C9_TypeDerivedFromTag ==
    (passes >= 1 /\ ~original.media_type.some /\ original.tipo_mensagem.some) =>
        /\ once.media_type = Some(C9_Mime(original.tipo_mensagem.v))
        /\ (~original.media_url.some /\ original.url_arquivo.some) =>
                once.media_url = original.url_arquivo

C9_Witness ==
    /\ passes >= 1
    /\ ~original.media_type.some
    /\ original.tipo_mensagem = Some("ptt")
    /\ ~original.media_url.some
    /\ original.url_arquivo = Some("https://x/a.ogg")
    /\ once.media_type = Some("audio/ogg")
    /\ once.media_url = Some("https://x/a.ogg")

(***************************************************************************)
(* C10: normalisation never changes a canonical field that was already     *)
(* set, changes nothing when both are set, and leaves every field other    *)
(* than media_url and media_type unchanged.                                *)
(***************************************************************************)
C10_PopulatedFieldsKept ==
    passes >= 1 =>
        /\ original.media_url.some => payload.media_url = original.media_url
        /\ original.media_type.some => payload.media_type = original.media_type
        /\ (original.media_url.some /\ original.media_type.some) => payload = original
        /\ \A f \in DOMAIN original \ {"media_url", "media_type"} : payload[f] = original[f]

C10_Witness ==
    /\ passes >= 1
    /\ original.media_url.some
    /\ original.url_arquivo.some
    /\ original.url_arquivo # original.media_url
    /\ ~original.media_type.some
    /\ original.tipo_mensagem.some
    /\ payload # original

(***************************************************************************)
(* C11: for a body of one of the three documented shapes, the resolved     *)
(* payload's get_contact_name is the name the body carries (nome, or       *)
(* data.lead_name of a Legacy-event body) and "Contato" when it carries    *)
(* none.  (Stated as the claim; the code refutes it.)                      *)
(***************************************************************************)
C11_DocumentedShape(v) ==
    /\ v.kind = "object"
    /\ DOMAIN v.fields # {}
    /\ \/ LegacyShaped(v) /\ DOMAIN v.fields = {"id", "event_type", "timestamp", "data"}
       \/ DOMAIN v.fields \subseteq KnownKeys(ChatGuruFields)
       \/ DOMAIN v.fields \subseteq KnownKeys(GenericFields)

C11_CarriedName(v) ==
    IF "nome" \in DOMAIN v.fields
    THEN IF v.fields.nome.kind = "string" THEN Some(v.fields.nome.str) ELSE None
    ELSE IF LegacyShaped(v) /\ "lead_name" \in DOMAIN v.fields.data.fields
    THEN Some(v.fields.data.fields.lead_name.str)
    ELSE None

C11_ContactNameOrDefault ==
    (resolved # Pending /\ resolved.ok /\ C11_DocumentedShape(raw)) =>
        get_contact_name(resolved) = UnwrapOr(C11_CarriedName(raw), "Contato")

(***************************************************************************)
(* C12: on a non-success response a call logs one record after the request *)
(* record: a warning exactly when the body says that the chat does not     *)
(* exist ("Chat não encontrado", "Chat não existe", as text or with the    *)
(* JSON escape of the a-tilde), an error for every other body.  (Stated as *)
(* the claim; the code refutes it.)                                        *)
(***************************************************************************)
C12_SaysChatDoesNotExist(body) ==
    \E phrase \in { <<"Chat n", "ão encontrado">>, <<"Chat n", "ão existe">>,
                    <<"Chat n", "\\u00e3o encontrado">>, <<"Chat n", "\\u00e3o existe">> } :
        Contains(body, phrase)

C12_SeverityByBody ==
    \A k \in DOMAIN calls :
        (calls[k].pc = "done" /\ calls[k].responded /\ ~is_success(calls[k].status)) =>
            SubSeq(calls[k].logs, 2, Len(calls[k].logs)) =
                IF C12_SaysChatDoesNotExist(calls[k].response_text)
                THEN <<"warn">> ELSE <<"error">>

(***************************************************************************)
(* C13: under any interleaving of concurrent calls the message-state map   *)
(* stays empty and the client's fields never change; a step changes the    *)
(* state of one call only; the request of every call is built from its own *)
(* arguments and the client's fields, and its result is decided by its own *)
(* response.                                                               *)
(***************************************************************************)
C13_OwnRequest(call) ==
    /\ call.request.base_url = base_url(client.api_endpoint)
    /\ call.request.key = client.api_token
    /\ call.request.account_id = client.account_id
    /\ call.request.chat_number = clean_phone(call.phone_number)
    /\ call.request.text = encode(call.text)
    /\ call.op = "add_annotation" =>
            /\ call.request.action = "note_add"
            /\ call.request.phone_id = DefaultPhoneId
    /\ call.op = "send_confirmation_message" =>
            /\ call.request.action = "message_send"
            /\ call.request.phone_id = UnwrapOr(call.phone_id, DefaultPhoneId)

C13_OwnResult(call) ==
    call.result = IF call.responded THEN "Ok" ELSE "NetworkError"

C13_Step ==
    /\ message_states = <<>> /\ message_states' = <<>>
    /\ client' = client
    /\ \A k \in DOMAIN calls :
            calls'[k] # calls[k] => \A j \in DOMAIN calls \ {k} : calls'[j] = calls[j]
    /\ \A k \in DOMAIN calls :
            /\ calls'[k].pc # "idle" => C13_OwnRequest(calls'[k])
            /\ calls'[k].pc = "done" => C13_OwnResult(calls'[k])

C13_CallsShareNothing == [][C13_Step]_vars

C13_Witness ==
    /\ calls[1].pc = "done" /\ calls[1].op = "send_confirmation_message"
    /\ calls[1].status = 404
    /\ calls[2].pc = "reading" /\ calls[2].op = "add_annotation"
    /\ calls[2].status = 200
    /\ calls[1].phone_number # calls[2].phone_number

(***************************************************************************)
(* C14: for a Primary payload has_media, get_media_url and get_media_type  *)
(* return after normalize_media_fields what they returned before it, and   *)
(* the media_url and media_type stored by the normalisation are what       *)
(* get_media_url and get_media_type returned on the payload before it.     *)
(***************************************************************************)
C14_Primary(p) == [ok |-> TRUE, variant |-> "ChatGuru", p |-> p]

C14_AccessorsInvariant ==
    passes >= 1 =>
        LET before == C14_Primary(original)
            after == C14_Primary(payload)
        IN  /\ has_media(after) = has_media(before)
            /\ get_media_url(after) = get_media_url(before)
            /\ get_media_type(after) = get_media_type(before)
            /\ payload.media_url = get_media_url(before)
            /\ payload.media_type = get_media_type(before)

C14_Witness ==
    /\ passes >= 1
    /\ ~original.media_url.some /\ ~original.media_type.some
    /\ original.url_arquivo.some
    /\ original.tipo_mensagem = Some("ptt")
    /\ payload.media_url = original.url_arquivo
    /\ payload.media_type = Some("audio/ogg")
    /\ get_media_type(C14_Primary(original)) = Some("audio/ogg")

====
